---- MODULE Spec2Model ----
(***************************************************************************)
(* Model of the daily scheduler (src/src/util/Scheduler.ts) and of the     *)
(* part of the bot (MicrosoftRewardsBot, index.ts) that the scheduler      *)
(* drives through executeMainScript.                                       *)
(*                                                                         *)
(* Time is counted in ticks; a calendar day has DayLen ticks, and minutes, *)
(* hours and milliseconds of the source are all ticks here.  The host      *)
(* clock is taken to be UTC, so the local date used by setHours and the    *)
(* UTC date of toISOString are the same day.  Instants are > 0, so that 0  *)
(* stands for an unset / falsy instant and for the empty date string.      *)
(*                                                                         *)
(* One action is one turn of the event loop: start(), a timer callback,    *)
(* the continuation of executeWithRetry after its await, a signal handler. *)
(* A timer that is due fires before the clock moves on.  A process that    *)
(* has ended may be started again; it then loads the state file.           *)
(*                                                                         *)
(* Spec is the scheduler, with a run of the bot as one step.  SpecTasks is *)
(* one such run in a single process, runTasks step by step, from the state *)
(* in which the scheduler awaits it.  SpecCluster is the primary process   *)
(* of a direct run with clusters > 1.  In SpecTasks the time a step takes  *)
(* is not counted, and executionDuration is 0.  SpecStore is the scheduler *)
(* over a state file it did not write or cannot write, SpecRetries a run   *)
(* with any dailyRetries, SpecWait one call of HumanBehavior.humanWait,    *)
(* SpecZones one call of getTodayScheduledTime for every zone name, and    *)
(* SpecPasses a run of several passes with and without config.parallel.    *)
(***************************************************************************)
EXTENDS Integers, Sequences, FiniteSets, TLC

\* ---------------------------------------------------------------- bounds
DayLen == 4
FirstTick == DayLen
MaxTime == 11
MaxFailures == 4
\* Math.random() takes the values j / RandomGrain, j = 0 .. RandomGrain - 1.
RandomGrain == 8

\* ------------------------------------------------------------ vocabulary
Unset == 0
NoDate == 0

DefaultState ==
    [lastRunDate |-> NoDate, nextRunTime |-> 0, consecutiveFailures |-> 0,
     isRunning |-> FALSE, lastFailureTime |-> Unset]

\* Months stand for the value of Date.getMonth() during the modelled days.
Months == {0, 6}

TimezoneNames == {"UTC", "Europe/Paris"}

RetryPolicies ==
    [enabled : BOOLEAN, maxRetries : {1, 3}, retryDelayMinutes : {1, 2}]

JitterRanges == {[min |-> 0, max |-> 1], [min |-> 1, max |-> 2]}

Schedules ==
    {[dailyRunTime |-> 2, timezone |-> "UTC"],
     [dailyRunTime |-> 0, timezone |-> "Europe/Paris"]}

\* scheduler says whether the configuration has a scheduler block at all.
MkConfig(en, sch, jit, rp, cl) ==
    [scheduler |-> TRUE, enabled |-> en, dailyRunTime |-> sch.dailyRunTime, timezone |-> sch.timezone,
     randomDelayMinutes |-> jit, retryOnFailure |-> rp, clusters |-> cl,
     accounts |-> 2]

ValidConfigs ==
    {MkConfig(TRUE, sch, jit, rp, cl) :
        sch \in Schedules, jit \in JitterRanges, rp \in RetryPolicies, cl \in {1, 2}}

\* Configurations start() refuses: disabled, no scheduler block, bad time,
\* jitter min >= max.
RefusedConfigs ==
    LET rp == [enabled |-> TRUE, maxRetries |-> 3, retryDelayMinutes |-> 1]
        utc == [dailyRunTime |-> 2, timezone |-> "UTC"]
    IN  {MkConfig(FALSE, utc, [min |-> 0, max |-> 1], rp, 1),
         [MkConfig(FALSE, utc, [min |-> 0, max |-> 1], rp, 1)
             EXCEPT !.scheduler = FALSE],
         MkConfig(TRUE, [dailyRunTime |-> DayLen, timezone |-> "UTC"],
                  [min |-> 0, max |-> 1], rp, 1),
         MkConfig(TRUE, utc, [min |-> 1, max |-> 1], rp, 1),
         MkConfig(TRUE, utc, [min |-> 2, max |-> 1], rp, 1)}

Configs == ValidConfigs \cup RefusedConfigs

VARIABLES cfg, month, writable, now, alive, pc, state, file, timers, schedulerTimer,
          isShuttingDown, runs, bots, liveWorkers, by, ev, failedRuns,
          scheduledTime

\* writable says whether writeFileSync on the state file succeeds.
\* by and ev record the handler that ran last and the branch it took;
\* failedRuns counts the scheduled runs that threw since the last one that
\* succeeded.  The three are observations, read by no handler.
\* scheduledTime is what a call of getTodayScheduledTime() ended in.
schedulerVars ==
    <<cfg, month, writable, now, alive, pc, state, file, timers, schedulerTimer,
      isShuttingDown, runs, bots, liveWorkers, by, ev, failedRuns,
      scheduledTime>>

\* The bot (MicrosoftRewardsBot): what one call of runTasks reads and writes.
\*   config          the fields of the configuration the bot reads
\*   accounts        the account list handed to runTasks (e-mail addresses)
\*   accountResults, pointsInitial   the bot's fields of these names
\*   passNumber, idx the pass in progress and the position in its account loop
\*   pcT             where runTasks stands
\*   work            the Desktop / Mobile calls in flight
\* and the primary process of cluster mode:
\*   workers         the forked workers, activeWorkers the bot's counter.
\* calls, threw, faults, handed, summary and publisherResult are observations:
\* the per-account invocations made (pass, position), the positions whose work
\* threw on pass 1, the passes an error escaped from, the number of summaries
\* handed to sendFinalWebhook, the last summary built, and what the
\* publisher's request ended in.
VARIABLES config, accounts, accountResults, pointsInitial, passNumber, idx,
          pcT, work, workers, activeWorkers, calls, threw, faults, handed,
          summary, publisherResult

\* The bot's HumanBehavior: waitCall is a call of humanWait (its arguments,
\* isEnabled, the minutes since executionStartTime), waited the duration it
\* handed to utils.wait, a fraction num / den of milliseconds.
VARIABLES waitCall, waited

taskVars ==
    <<config, accounts, accountResults, pointsInitial, passNumber, idx, pcT,
      work, workers, activeWorkers, calls, threw, faults, handed, summary,
      publisherResult, waitCall, waited>>

vars == <<schedulerVars, taskVars>>


\* ------------------------------------------------------------- clock, dates
\* new Date().toISOString().split('T')[0]: the calendar date of instant t.
getTodayDateString(t) == t \div DayLen

\* Start of the calendar day of date d (setHours(0,0,0,0) on that date).
Midnight(d) == d * DayLen

\* The switch of getConfiguredTimezoneOffset: the offset it returns, in
\* hours, or the error it throws.  `now` is a const of the switch block that
\* the Paris case initialises; the New York case reads it uninitialised.  In
\* the default case the host's offset is returned, 0 on a host in UTC, after
\* a warning.
getConfiguredTimezoneOffset(c, m) ==
    CASE c.timezone = "UTC" -> [returns |-> 0]
      [] c.timezone \in {"Europe/Paris", "CET"} ->
            LET isJuly == m = 6
                isDST == isJuly \/ (m >= 2 /\ m <= 9)
            IN  [returns |-> IF isDST THEN -2 ELSE -1]
      [] c.timezone \in {"America/New_York", "EST"} -> [throws |-> "ReferenceError"]
      [] OTHER -> [returns |-> 0, warned |-> TRUE]

\* The instant, for a zone name whose offset is returned.
getScheduledTimeForDate(c, m, d) ==
    Midnight(d) + c.dailyRunTime + getConfiguredTimezoneOffset(c, m).returns

getTodayScheduledTime(c, m, t) ==
    getScheduledTimeForDate(c, m, getTodayDateString(t))

getTomorrowScheduledTime(c, m, t) ==
    getScheduledTimeForDate(c, m, getTodayDateString(t) + 1)

\* Math.floor(x) of the fraction x = p / q, q > 0.
Floor(p, q) == p \div q

\* getRandomDelay with max - min for max - min + 1.
getRandomDelayExclusive(c) ==
    LET min == c.randomDelayMinutes.min
        max == c.randomDelayMinutes.max
    IN  {Floor(j * (max - min), RandomGrain) + min : j \in 0..(RandomGrain - 1)}

\* Every value Math.floor(Math.random() * (max - min + 1)) + min can take, one
\* per draw of Math.random(); a minute is a tick.
getRandomDelay(c) ==
    LET min == c.randomDelayMinutes.min
        max == c.randomDelayMinutes.max
    IN  {Floor(j * (max - min + 1), RandomGrain) + min : j \in 0..(RandomGrain - 1)}

\* Every value calculateNextRunTime can return at instant t.
calculateNextRunTime(c, m, t) ==
    LET todayScheduledTime == getTodayScheduledTime(c, m, t)
        targetTime == IF t >= todayScheduledTime
                      THEN getTomorrowScheduledTime(c, m, t)
                      ELSE todayScheduledTime
    IN  {targetTime + randomDelayMs : randomDelayMs \in getRandomDelay(c)}

\* validateConfig without its test of the jitter bounds.
validateConfigTimeOnly(c) ==
    /\ c.scheduler
    /\ c.dailyRunTime \in 0..(DayLen - 1)

validateConfig(c) ==
    /\ c.scheduler
    /\ c.dailyRunTime \in 0..(DayLen - 1)
    /\ ~(c.randomDelayMinutes.min >= c.randomDelayMinutes.max)

\* shouldRunNow with the scheduled-time test made strict (> for >=).
shouldRunNowStrict(c, m, st, t) ==
    LET today == getTodayDateString(t)
    IN  \/ st.lastRunDate = NoDate
        \/ /\ st.lastRunDate # today
           /\ t > getTodayScheduledTime(c, m, t)
        \/ /\ c.retryOnFailure.enabled
           /\ st.consecutiveFailures > 0
           /\ st.lastFailureTime # Unset
           /\ t >= st.lastFailureTime + c.retryOnFailure.retryDelayMinutes

shouldRunNow(c, m, st, t) ==
    LET today == getTodayDateString(t)
    IN  \/ st.lastRunDate = NoDate
        \/ /\ st.lastRunDate # today
           /\ t >= getTodayScheduledTime(c, m, t)
        \/ /\ c.retryOnFailure.enabled
           /\ st.consecutiveFailures > 0
           /\ st.lastFailureTime # Unset
           /\ t >= st.lastFailureTime + c.retryOnFailure.retryDelayMinutes


\* ------------------------------------------------- the scheduler's handlers
\* The operators below work on a record s of the fields a handler can change:
\*   state, file, timers, schedulerTimer, runs, alive, ev.
\* They return the set of records the handler can leave behind (one per random
\* draw), so that one action is one whole handler.

Cur ==
    [state |-> state, file |-> file, timers |-> timers,
     schedulerTimer |-> schedulerTimer, runs |-> runs, alive |-> alive,
     ev |-> ev, writable |-> writable]

Tag(s, e) == [s EXCEPT !.ev = e]

\* No call of getTodayScheduledTime() has been followed.
NotComputed == [done |-> FALSE]

\* What the state file can be, other than a state that saveState wrote: not
\* there, or there and unreadable, not JSON, or the JSON text null.
NoFile == [exists |-> FALSE]

MalformedFiles ==
    {[exists |-> TRUE, content |-> c] : c \in {"unreadable", "not JSON", "null"}}

\* saveState with no catch around the write: the error ends the process.
saveStateThrows(s) ==
    IF s.writable THEN [s EXCEPT !.file = s.state] ELSE [s EXCEPT !.alive = FALSE]

\* try { writeFileSync(stateFilePath, JSON.stringify(this.state)) } catch { log }
saveState(s) ==
    IF s.writable THEN [s EXCEPT !.file = s.state] ELSE s

\* loadState: the default state when existsSync is false, and when
\* readFileSync or JSON.parse throws; otherwise the parsed fields spread over
\* the default state ({ ...defaultState, ...null } is the default state).
loadState(f) ==
    IF f = NoFile THEN DefaultState
    ELSE IF f \in MalformedFiles
         THEN DefaultState
    ELSE [k \in DOMAIN DefaultState |->
             IF k \in DOMAIN f THEN f[k] ELSE DefaultState[k]]

\* setTimeout: the handle kept in schedulerTimer is the latest daily timer; an
\* earlier daily timer that is still pending stays pending, no longer tracked.
Untrack(ts) == [i \in 1..Len(ts) |-> [ts[i] EXCEPT !.tracked = FALSE]]

ArmDaily(s, due) ==
    [s EXCEPT !.timers = Append(Untrack(s.timers),
                                [kind |-> "daily", due |-> due, tracked |-> TRUE]),
              !.schedulerTimer = TRUE]

ArmRetry(s, due) ==
    [s EXCEPT !.timers = Append(s.timers,
                                [kind |-> "retry", due |-> due, tracked |-> FALSE])]

\* clearTimeout(this.schedulerTimer)
ClearTracked(ts) ==
    LET Keep(tm) == ~tm.tracked IN SelectSeq(ts, Keep)

\* The "already ran today" test left out.
AlreadyRanTodayOmitted(st, t) == FALSE

\* The "already ran successfully today" early return of executeWithRetry.
AlreadyRanToday(st, t) ==
    st.lastRunDate = getTodayDateString(t) /\ st.consecutiveFailures = 0

\* The "max retries exceeded" early return of executeWithRetry.
RetryLimitReached(c, st) ==
    c.retryOnFailure.enabled /\ st.consecutiveFailures >= c.retryOnFailure.maxRetries

\* executeWithRetry up to its await: isRunning = true, saveState, and the call
\* of executeMainScript, which is then in flight; it remembers `today`.
BeginRun(s, t) ==
    LET s1 == saveState([s EXCEPT !.state.isRunning = TRUE])
    IN  Tag([s1 EXCEPT !.runs = Append(s1.runs, [today |-> getTodayDateString(t)])],
            "runStarted")

\* scheduleNext saving the state before it sets nextRunTime.
ArmNextSavesFirst(c, m, s, t) ==
    {[saveState(ArmDaily(s, nextRunTime)) EXCEPT !.state.nextRunTime = nextRunTime] :
        nextRunTime \in {n \in calculateNextRunTime(c, m, t) : n - t > 0}}

\* scheduleNext past its delay > 0 test, one record per jitter draw.
ArmNext(c, m, s, t) ==
    {saveState([ArmDaily(s, nextRunTime) EXCEPT !.state.nextRunTime = nextRunTime]) :
        nextRunTime \in {n \in calculateNextRunTime(c, m, t) : n - t > 0}}

\* scheduleNext and executeWithRetry call each other without ever returning to
\* the event loop while delay <= 0 and executeWithRetry returns early; no state
\* changes on that cycle, so it ends with the first draw that gives delay > 0.
\* When no draw does, the recursion exhausts the stack inside an async frame:
\* the rejection is unhandled, which ends the process or is only reported,
\* depending on the runtime.
StackExhausted(s) ==
    {Tag(s, "stackExhausted"), Tag([s EXCEPT !.alive = FALSE], "stackExhausted")}

scheduleNext(c, m, shuttingDown, s, t) ==
    IF shuttingDown THEN {s}
    ELSE LET armed == ArmNext(c, m, s, t)
             runNow == \E n \in calculateNextRunTime(c, m, t) : n - t <= 0
         IN  armed \cup
             (IF ~runNow THEN {}
              ELSE IF s.state.isRunning THEN {s}
              ELSE IF AlreadyRanToday(s.state, t) \/ RetryLimitReached(c, s.state)
                   THEN (IF armed = {} THEN StackExhausted(s) ELSE {})
              ELSE {BeginRun(s, t)})

\* executeWithRetry without its isRunning guard.
executeWithRetryNoGuard(c, m, shuttingDown, s, t) ==
    IF AlreadyRanToday(s.state, t)
         THEN scheduleNext(c, m, shuttingDown, Tag(s, "alreadyRanToday"), t)
    ELSE IF RetryLimitReached(c, s.state)
         THEN scheduleNext(c, m, shuttingDown, Tag(s, "retryLimit"), t)
    ELSE {BeginRun(s, t)}

executeWithRetry(c, m, shuttingDown, s, t) ==
    IF s.state.isRunning THEN {Tag(s, "skipRunning")}
    ELSE IF AlreadyRanToday(s.state, t)
         THEN scheduleNext(c, m, shuttingDown, Tag(s, "alreadyRanToday"), t)
    ELSE IF RetryLimitReached(c, s.state)
         THEN scheduleNext(c, m, shuttingDown, Tag(s, "retryLimit"), t)
    ELSE {BeginRun(s, t)}

\* stop() that saves first and then forgets the timer and its nextRunTime.
stopSavesFirst(s) ==
    [saveState(s) EXCEPT !.timers = ClearTracked(s.timers),
                         !.schedulerTimer = FALSE,
                         !.state.nextRunTime = 0]

\* stop(): clear the tracked timer, save.
stop(s) ==
    saveState([s EXCEPT !.timers = ClearTracked(s.timers), !.schedulerTimer = FALSE])

Set(s) ==
    /\ state' = s.state
    /\ file' = s.file
    /\ timers' = s.timers
    /\ schedulerTimer' = s.schedulerTimer
    /\ runs' = s.runs
    /\ alive' = s.alive
    /\ ev' = s.ev


\* A process that has ended keeps nothing but the state file.
Commit(s, shuttingDown, bs, lw) ==
    IF s.alive
    THEN /\ Set(s)
         /\ isShuttingDown' = shuttingDown
         /\ bots' = bs
         /\ liveWorkers' = lw
         /\ pc' = "started"
    ELSE /\ Set([s EXCEPT !.state = DefaultState, !.timers = <<>>,
                          !.schedulerTimer = FALSE, !.runs = <<>>])
         /\ isShuttingDown' = FALSE
         /\ bots' = <<>>
         /\ liveWorkers' = 0
         /\ pc' = "dead"

\* ------------------------------------------------- the bot: vocabulary
MaxAccounts == 2
MaxDailyRetries == 1
MaxClusters == 3
MaxClusterAccounts == 7

Emails == {"a@x", "b@x"}

\* Values the dashboard can report for the available points when Desktop
\* starts, and at the end of Desktop or Mobile.
Points == {3}

PointsAfter == {1, 5}

\* Values of the local tasksCompleted of Desktop and of Mobile.
TaskCounts == {2}

\* What the external work can throw; String(error) is what the catch records.
Errors ==
    {[name |-> "Error", message |-> ""],
     [name |-> "TimeoutError", message |-> "login timed out"]}

String(e) == IF e.message = "" THEN e.name ELSE e.name \o ": " \o e.message

undefined == "undefined"

NoSummary == [built |-> FALSE]

\* finalWebhook: enabled, and the length of its url.
Webhooks ==
    {[enabled |-> FALSE, urlLength |-> 0],
     [enabled |-> TRUE, urlLength |-> 0],
     [enabled |-> TRUE, urlLength |-> 40]}

MkBotConfig(cl, retries, par, hook) ==
    [clusters |-> cl, dailyRetries |-> retries, parallel |-> par,
     finalWebhook |-> hook]

\* The configurations of a single process: every number of extra passes with
\* the publisher configured, and the other publisher settings and
\* config.parallel with one pass.
TaskConfigs ==
    {MkBotConfig(1, retries, FALSE, [enabled |-> TRUE, urlLength |-> 40]) :
        retries \in 0..MaxDailyRetries}
    \cup {MkBotConfig(1, 0, par, hook) : par \in BOOLEAN, hook \in Webhooks}

\* Every list of at most n e-mail addresses, up to the renaming of addresses
\* (the first is a@x); an address may occur more than once.
AccountLists(n) ==
    {l \in UNION {[1..k -> Emails] : k \in 0..n} : l = <<>> \/ l[1] = "a@x"}

Max(a, b) == IF a >= b THEN a ELSE b

\* createAccountResult of util/FinalWebhook
createAccountResult(email, pointsBefore, pointsAfter, tasksCompleted, executionDuration, success, errorMessage) ==
    [email |-> email,
     pointsBefore |-> pointsBefore,
     pointsAfter |-> pointsAfter,
     pointsGained |-> Max(0, pointsAfter - pointsBefore),
     tasksCompleted |-> tasksCompleted,
     executionDuration |-> executionDuration,
     success |-> success,
     errorMessage |-> errorMessage]

\* accountResults.reduce((sum, account) => sum + account.pointsGained, 0)
RECURSIVE SumPointsGained(_)
SumPointsGained(rs) ==
    IF rs = <<>> THEN 0
    ELSE SumPointsGained(SubSeq(rs, 1, Len(rs) - 1)) + rs[Len(rs)].pointsGained

\* createFinalSummary that totals pointsAfter - pointsBefore of each account.
RECURSIVE SumPointsDelta(_)
SumPointsDelta(rs) ==
    IF rs = <<>> THEN 0
    ELSE SumPointsDelta(SubSeq(rs, 1, Len(rs) - 1))
         + (rs[Len(rs)].pointsAfter - rs[Len(rs)].pointsBefore)

createFinalSummaryOfDeltas(rs, retryPassesUsed) ==
    LET Ok(r) == r.success
        successfulAccounts == Len(SelectSeq(rs, Ok))
    IN  [built |-> TRUE,
         totalAccounts |-> Len(rs),
         successfulAccounts |-> successfulAccounts,
         failedAccounts |-> Len(rs) - successfulAccounts,
         totalPointsGained |-> SumPointsDelta(rs),
         retryPassesUsed |-> retryPassesUsed,
         accountResults |-> rs]

\* createFinalSummary of util/FinalWebhook (the times are left out).
createFinalSummary(rs, retryPassesUsed) ==
    LET Ok(r) == r.success
        successfulAccounts == Len(SelectSeq(rs, Ok))
    IN  [built |-> TRUE,
         totalAccounts |-> Len(rs),
         successfulAccounts |-> successfulAccounts,
         failedAccounts |-> Len(rs) - successfulAccounts,
         totalPointsGained |-> SumPointsGained(rs),
         retryPassesUsed |-> retryPassesUsed,
         accountResults |-> rs]

\* this.accountResults.find(result => result.email === email): the position of
\* the first record of that address, 0 when there is none.
FindResult(rs, email) ==
    LET hits == {i \in 1..Len(rs) : rs[i].email = email}
    IN  IF hits = {} THEN 0 ELSE CHOOSE i \in hits : \A j \in hits : i <= j

\* chunkArray of util/Utils
RECURSIVE Slices(_, _, _)
Slices(arr, i, chunkSize) ==
    IF i > Len(arr) THEN <<>>
    ELSE <<SubSeq(arr, i, IF i + chunkSize - 1 < Len(arr)
                          THEN i + chunkSize - 1 ELSE Len(arr))>>
         \o Slices(arr, i + chunkSize, chunkSize)

\* chunkArray with a chunk size of floor(len / n) + 1.
chunkArrayOversize(arr, numChunks) ==
    LET chunkSize == (Len(arr) \div numChunks) + 1
    IN  Slices(arr, 1, chunkSize)

chunkArray(arr, numChunks) ==
    LET chunkSize == (Len(arr) + numChunks - 1) \div numChunks
    IN  Slices(arr, 1, chunkSize)

\* ------------------------------------------------- the bot: humanWait
NoCall == [called |-> FALSE]

NoWait == [done |-> FALSE]

Min(a, b) == IF a <= b THEN a ELSE b

\* The calls of humanWait in HumanBehavior: its bounds and its context.
ConstantWaits ==
    {<<300, 600, "thinking">>, <<100, 300, "thinking">>, <<200, 600, "thinking">>,
     <<800, 2000, "reading">>, <<500, 1500, "thinking">>, <<50, 150, "thinking">>,
     <<50, 150, "scanning">>, <<300, 800, "reading">>, <<1000, 3000, "thinking">>,
     <<800, 2000, "thinking">>}

\* simulateReading: minTime = max(500, actualTime * 0.3) and maxTime =
\* min(30000, actualTime * 1.5), for a text of no, of some and of many words.
ReadingWaits ==
    {<<500, 0, "reading">>, <<600, 3000, "reading">>, <<9000, 30000, "reading">>}

\* Minutes since executionStartTime when the wait is asked for.
SessionMinutes == {0, 60, 120}

\* simulateReading returns before its call of humanWait when isEnabled is
\* false; the calls with constant bounds are also what code outside the class
\* passes, in either mode.
WaitCalls ==
    {[called |-> TRUE, minMs |-> a[1], maxMs |-> a[2], context |-> a[3],
      isEnabled |-> en, sessionMinutes |-> m] :
        a \in ConstantWaits, en \in BOOLEAN, m \in SessionMinutes}
    \cup {[called |-> TRUE, minMs |-> a[1], maxMs |-> a[2], context |-> a[3],
           isEnabled |-> TRUE, sessionMinutes |-> m] :
              a \in ReadingWaits, m \in SessionMinutes}

\* The fallback with a variance of twice the range and no clamp.
fallbackWaitWide(minMs, maxMs, j) ==
    [done |-> TRUE,
     num |-> 5 * RandomGrain * (minMs + maxMs)
             + (2 * j - RandomGrain) * (maxMs - minMs) * 10,
     den |-> 10 * RandomGrain]

\* humanWait with isEnabled false: baseTime = (minMs + maxMs) / 2, variance =
\* (maxMs - minMs) * 0.2, actualTime = baseTime + (Math.random() - 0.5) *
\* variance, clamped to minMs..maxMs; Math.random() = j / RandomGrain, and the
\* result in units of 1 / (10 * RandomGrain) ms.
fallbackWait(minMs, maxMs, j) ==
    LET den == 10 * RandomGrain
        actualTime == 5 * RandomGrain * (minMs + maxMs)
                      + (2 * j - RandomGrain) * (maxMs - minMs)
    IN  [done |-> TRUE,
         num |-> Max(minMs * den, Min(maxMs * den, actualTime)),
         den |-> den]

\* The range of the multiplier of calculateContextualWait, in tenths.
ContextMultiplier(context) ==
    CASE context = "reading" -> [lo |-> 8, hi |-> 14]
      [] context = "thinking" -> [lo |-> 9, hi |-> 16]
      [] context = "typing" -> [lo |-> 7, hi |-> 12]
      [] context = "scanning" -> [lo |-> 5, hi |-> 9]
      [] context = "loading" -> [lo |-> 10, hi |-> 13]
      [] OTHER -> [lo |-> 10, hi |-> 10]

\* Math.round(randomInRange(minMs, maxMs) * multiplier), for the draws j1, j2.
calculateContextualWait(minMs, maxMs, context, j1, j2) ==
    LET m == ContextMultiplier(context)
        baseTime == RandomGrain * minMs + j1 * (maxMs - minMs)
        multiplier == RandomGrain * m.lo + j2 * (m.hi - m.lo)
        den == 10 * RandomGrain * RandomGrain
    IN  Floor(2 * baseTime * multiplier + den, 2 * den)

\* applyFatigue, in hundredths of a millisecond.
applyFatigue(waitTime, sessionMinutes) ==
    IF sessionMinutes > 45
    THEN waitTime * Min(100 + (sessionMinutes - 45), 150)
    ELSE waitTime * 100

\* humanWait with isEnabled true: the contextual wait, the fatigue, and for
\* a draw j3 below 0.05 a distraction of randomInRange(2000, 8000).
contextualWait(call, j1, j2, j3, j4) ==
    LET waitTime == applyFatigue(calculateContextualWait(call.minMs, call.maxMs,
                                                         call.context, j1, j2),
                                 call.sessionMinutes)
        distraction == IF 20 * j3 < RandomGrain
                       THEN 100 * (2000 * RandomGrain + j4 * 6000)
                       ELSE 0
    IN  [done |-> TRUE,
         num |-> waitTime * RandomGrain + distraction,
         den |-> 100 * RandomGrain]

\* Every duration humanWait can hand to utils.wait for one call.
humanWait(call) ==
    IF ~call.isEnabled
    THEN {fallbackWait(call.minMs, call.maxMs, j) : j \in 0..(RandomGrain - 1)}
    ELSE {contextualWait(call, j1, j2, j3, j4) :
             j1 \in 0..(RandomGrain - 1), j2 \in 0..(RandomGrain - 1),
             j3 \in 0..(RandomGrain - 1), j4 \in 0..(RandomGrain - 1)}

\* The bot before run() is called.
BotIdle ==
    /\ config = MkBotConfig(1, 0, FALSE, [enabled |-> FALSE, urlLength |-> 0])
    /\ accounts = <<>>
    /\ accountResults = <<>>
    /\ pointsInitial = 0
    /\ passNumber = 0
    /\ idx = 0
    /\ pcT = "idle"
    /\ work = {}
    /\ workers = <<>>
    /\ activeWorkers = 0
    /\ calls = <<>>
    /\ threw = {}
    /\ faults = {}
    /\ handed = 0
    /\ summary = NoSummary
    /\ publisherResult = "none"
    /\ waitCall = NoCall
    /\ waited = NoWait

\* ------------------------------------------------------------------ Init
Init ==
    /\ cfg \in Configs
    /\ month \in (IF cfg.timezone = "UTC" THEN {0} ELSE Months)
    /\ now \in FirstTick..(FirstTick + DayLen - 1)
    /\ alive = TRUE
    /\ pc = "constructed"
    /\ file = DefaultState
    /\ state = loadState(file)
    /\ timers = <<>>
    /\ schedulerTimer = FALSE
    /\ isShuttingDown = FALSE
    /\ runs = <<>>
    /\ bots = <<>>
    /\ liveWorkers = 0
    /\ by = "init"
    /\ ev = "constructed"
    /\ failedRuns = 0
    /\ writable = TRUE
    /\ scheduledTime = NotComputed
    /\ BotIdle

\* --------------------------------------------------------------- actions
\* start(), called once right after construction.
Start ==
    /\ alive /\ pc = "constructed"
    /\ by' = "start"
    /\ \E s \in (IF ~(cfg.scheduler /\ cfg.enabled) \/ ~validateConfig(cfg)
                 THEN {Tag(Cur, "startRefused")}
                 ELSE IF shouldRunNow(cfg, month, state, now)
                      THEN executeWithRetry(cfg, month, isShuttingDown, Cur, now)
                      ELSE scheduleNext(cfg, month, isShuttingDown,
                                        Tag(Cur, "scheduled"), now)) :
          Commit(s, isShuttingDown, bots, liveWorkers)
    /\ UNCHANGED <<taskVars, cfg, month, writable, scheduledTime, now, failedRuns>>

\* Timers fire in order of their due time, then of their arming.
FirstDue(ts, t) ==
    {i \in 1..Len(ts) :
        /\ ts[i].due <= t
        /\ \A j \in 1..Len(ts) :
              \/ ts[j].due > ts[i].due
              \/ (ts[j].due = ts[i].due /\ j >= i)}

Remove(ts, i) == SubSeq(ts, 1, i - 1) \o SubSeq(ts, i + 1, Len(ts))

\* The callback of a daily or of a retry timer: () => this.executeWithRetry()
TimerFires ==
    /\ alive /\ pc = "started"
    /\ \E i \in FirstDue(timers, now) :
          /\ by' = timers[i].kind
          /\ \E s \in executeWithRetry(cfg, month, isShuttingDown,
                                       [Cur EXCEPT !.timers = Remove(timers, i)], now) :
                Commit(s, isShuttingDown, bots, liveWorkers)
    /\ UNCHANGED <<taskVars, cfg, month, writable, scheduledTime, now, failedRuns>>

\* The finally block re-arming the daily timer unconditionally.
FinallyAlwaysSchedule(c, m, shuttingDown, s, t) ==
    scheduleNext(c, m, shuttingDown,
                 saveState([s EXCEPT !.state.isRunning = FALSE]), t)

\* The finally block of executeWithRetry.
Finally(c, m, shuttingDown, s, t) ==
    LET s1 == saveState([s EXCEPT !.state.isRunning = FALSE])
    IN  IF \/ s1.state.consecutiveFailures = 0
           \/ s1.state.consecutiveFailures >= c.retryOnFailure.maxRetries
        THEN scheduleNext(c, m, shuttingDown, s1, t)
        ELSE {s1}

\* The catch block arming a retry also when the cap is reached (<= for <).
FailureRetryAtCap(c, s, t) ==
    LET s1 == [s EXCEPT !.state.consecutiveFailures = @ + 1,
                        !.state.lastFailureTime = t]
    IN  IF /\ c.retryOnFailure.enabled
           /\ s1.state.consecutiveFailures <= c.retryOnFailure.maxRetries
        THEN ArmRetry(s1, t + c.retryOnFailure.retryDelayMinutes)
        ELSE s1

\* The catch block that forgets to record the failure instant.
FailureNoTimestamp(c, s, t) ==
    LET s1 == [s EXCEPT !.state.consecutiveFailures = @ + 1]
    IN  IF /\ c.retryOnFailure.enabled
           /\ s1.state.consecutiveFailures < c.retryOnFailure.maxRetries
        THEN ArmRetry(s1, t + c.retryOnFailure.retryDelayMinutes)
        ELSE s1

\* The catch block arming the retry with no delay.
FailureRetryAtOnce(c, s, t) ==
    LET s1 == [s EXCEPT !.state.consecutiveFailures = @ + 1,
                        !.state.lastFailureTime = t]
    IN  IF /\ c.retryOnFailure.enabled
           /\ s1.state.consecutiveFailures < c.retryOnFailure.maxRetries
        THEN ArmRetry(s1, t)
        ELSE s1

\* The catch block of executeWithRetry.
Failure(c, s, t) ==
    LET s1 == [s EXCEPT !.state.consecutiveFailures = @ + 1,
                        !.state.lastFailureTime = t]
    IN  IF /\ c.retryOnFailure.enabled
           /\ s1.state.consecutiveFailures < c.retryOnFailure.maxRetries
        THEN ArmRetry(s1, t + c.retryOnFailure.retryDelayMinutes)
        ELSE s1

\* The success path that leaves lastFailureTime as it is.
SuccessKeepsFailureTime(s, today) ==
    [s EXCEPT !.state.lastRunDate = today,
              !.state.consecutiveFailures = 0]

\* The statements after the await of executeWithRetry, on success.
Success(s, today) ==
    [s EXCEPT !.state.lastRunDate = today,
              !.state.consecutiveFailures = 0,
              !.state.lastFailureTime = Unset]

\* executeMainScript rejects: the bot's construction or initialize() threw.
RunThrows ==
    /\ alive /\ pc = "started"
    /\ state.consecutiveFailures < MaxFailures
    /\ failedRuns < MaxFailures
    /\ \E i \in 1..Len(runs) :
          \E s \in Finally(cfg, month, isShuttingDown,
                           Failure(cfg, Tag([Cur EXCEPT !.runs = Remove(runs, i)],
                                            "runFailed"), now), now) :
             Commit(s, isShuttingDown, bots, liveWorkers)
    /\ by' = "runThrows"
    /\ failedRuns' = failedRuns + 1
    /\ UNCHANGED <<taskVars, cfg, month, writable, scheduledTime, now>>

\* chunkArray(accounts, clusters).length
NumChunks(n, k) ==
    LET chunkSize == (n + k - 1) \div k
    IN  IF n = 0 THEN 0 ELSE (n + chunkSize - 1) \div chunkSize

\* run() with clusters > 1 in the primary: runMaster forks one worker per chunk
\* and returns at once, so executeMainScript resolves and the run counts as a
\* success.
RunReturns ==
    /\ alive /\ pc = "started"
    /\ cfg.clusters > 1
    /\ \E i \in 1..Len(runs) :
          \E s \in Finally(cfg, month, isShuttingDown,
                           Success(Tag([Cur EXCEPT !.runs = Remove(runs, i)],
                                       "runSucceeded"), runs[i].today), now) :
             Commit(s, isShuttingDown, Append(bots, cfg.clusters),
                    liveWorkers + NumChunks(cfg.accounts, cfg.clusters))
    /\ by' = "runReturns"
    /\ failedRuns' = 0
    /\ UNCHANGED <<taskVars, cfg, month, writable, scheduledTime, now>>

\* run() with clusters <= 1: runTasks does every pass and then calls
\* process.exit(), so executeMainScript never resolves.
RunExits ==
    /\ alive /\ pc = "started"
    /\ ~(cfg.clusters > 1)
    /\ \E i \in 1..Len(runs) :
          Commit(Tag([Cur EXCEPT !.alive = FALSE], "processExit"),
                 isShuttingDown, bots, liveWorkers)
    /\ by' = "runExits"
    /\ UNCHANGED <<taskVars, cfg, month, writable, scheduledTime, now, failedRuns>>

\* cluster.on('exit') of every bot created by a run in this process:
\* activeWorkers -= 1, and process.exit(0) when it reaches 0.
WorkerExit ==
    /\ alive /\ pc = "started"
    /\ liveWorkers > 0
    /\ LET bs == [i \in 1..Len(bots) |-> bots[i] - 1]
       IN  Commit(Tag([Cur EXCEPT !.alive = \A i \in 1..Len(bs) : bs[i] # 0],
                      "workerExit"),
                  isShuttingDown, bs, liveWorkers - 1)
    /\ by' = "workerExit"
    /\ UNCHANGED <<taskVars, cfg, month, writable, scheduledTime, now, failedRuns>>

\* shutdown(): once only; sets isShuttingDown and calls stop().
shutdown(shuttingDown, s) == IF shuttingDown THEN s ELSE stop(s)

\* SIGTERM: the scheduler's own handler only; the process goes on.
Sigterm ==
    /\ alive /\ pc = "started"
    /\ ~isShuttingDown
    /\ Commit(Tag(shutdown(isShuttingDown, Cur), "shutdown"), TRUE, bots, liveWorkers)
    /\ by' = "SIGTERM"
    /\ UNCHANGED <<taskVars, cfg, month, writable, scheduledTime, now, failedRuns>>

\* SIGINT: the scheduler's handler, then main's: scheduler.stop(); process.exit(0)
Sigint ==
    /\ alive /\ pc = "started"
    /\ Commit(Tag([stop(shutdown(isShuttingDown, Cur)) EXCEPT !.alive = FALSE],
                  "shutdown"), TRUE, bots, liveWorkers)
    /\ by' = "SIGINT"
    /\ UNCHANGED <<taskVars, cfg, month, writable, scheduledTime, now, failedRuns>>

\* Nothing keeps the event loop alive: 'beforeExit' runs shutdown() and the
\* process ends.
LoopEmpty ==
    alive /\ pc = "started" /\ timers = <<>> /\ runs = <<>> /\ liveWorkers = 0

BeforeExit ==
    /\ LoopEmpty
    /\ Commit(Tag([shutdown(isShuttingDown, Cur) EXCEPT !.alive = FALSE],
                  "beforeExit"), TRUE, bots, liveWorkers)
    /\ by' = "beforeExit"
    /\ UNCHANGED <<taskVars, cfg, month, writable, scheduledTime, now, failedRuns>>

\* The process is started again: the constructor loads the state file.
Restart ==
    /\ ~alive
    /\ alive' = TRUE
    /\ pc' = "constructed"
    /\ state' = loadState(file)
    /\ by' = "init"
    /\ ev' = "constructed"
    /\ UNCHANGED <<taskVars, cfg, month, writable, scheduledTime, now, file, timers, schedulerTimer, isShuttingDown,
                   runs, bots, liveWorkers, failedRuns>>

\* Time passes; a live process first fires the timers that are due.
Tick ==
    /\ now < MaxTime
    /\ alive => (pc = "started" /\ FirstDue(timers, now) = {} /\ ~LoopEmpty)
    /\ now' = now + 1
    /\ by' = "tick"
    /\ ev' = "tick"
    /\ UNCHANGED <<taskVars, cfg, month, writable, scheduledTime, alive, pc, state, file, timers, schedulerTimer,
                   isShuttingDown, runs, bots, liveWorkers, failedRuns>>

Next ==
    \/ Start
    \/ TimerFires
    \/ RunThrows
    \/ RunReturns
    \/ RunExits
    \/ WorkerExit
    \/ Sigterm
    \/ Sigint
    \/ BeforeExit
    \/ Restart
    \/ Tick

Spec == Init /\ [][Next]_vars

\* The scheduler over a state file it did not write, or cannot write: the
\* file is missing, unreadable, not JSON, null, holds a part of the fields, or
\* was left with isRunning = true; writeFileSync works or fails throughout.
StoreFiles ==
    {NoFile} \cup MalformedFiles
    \cup {[lastRunDate |-> getTodayDateString(FirstTick)],
          [DefaultState EXCEPT !.isRunning = TRUE]}

StoreConfigs ==
    {MkConfig(TRUE, [dailyRunTime |-> 2, timezone |-> "UTC"], [min |-> 0, max |-> 1],
              [enabled |-> TRUE, maxRetries |-> 3, retryDelayMinutes |-> 1], cl) :
        cl \in {1, 2}}

InitStore ==
    /\ cfg \in StoreConfigs
    /\ month = 0
    /\ writable \in BOOLEAN
    /\ scheduledTime = NotComputed
    /\ now = FirstTick
    /\ alive = TRUE
    /\ pc = "constructed"
    /\ file \in StoreFiles
    /\ state = loadState(file)
    /\ timers = <<>>
    /\ schedulerTimer = FALSE
    /\ isShuttingDown = FALSE
    /\ runs = <<>>
    /\ bots = <<>>
    /\ liveWorkers = 0
    /\ by = "init"
    /\ ev = "constructed"
    /\ failedRuns = 0
    /\ BotIdle

SpecStore == InitStore /\ [][Next]_vars

\* One call of getTodayScheduledTime(), for every zone name of the switch and
\* one it does not list, in every month.
ZoneNames == {"UTC", "Europe/Paris", "CET", "America/New_York", "EST", "Asia/Tokyo"}

ZoneConfigs ==
    {MkConfig(TRUE, [dailyRunTime |-> h, timezone |-> z], [min |-> 0, max |-> 1],
              [enabled |-> TRUE, maxRetries |-> 3, retryDelayMinutes |-> 1], 1) :
        h \in 0..(DayLen - 1), z \in ZoneNames}

InitZones ==
    /\ cfg \in ZoneConfigs
    /\ month \in 0..11
    /\ writable = TRUE
    /\ scheduledTime = NotComputed
    /\ now \in FirstTick..(FirstTick + DayLen - 1)
    /\ alive = TRUE
    /\ pc = "constructed"
    /\ file = DefaultState
    /\ state = loadState(file)
    /\ timers = <<>>
    /\ schedulerTimer = FALSE
    /\ isShuttingDown = FALSE
    /\ runs = <<>>
    /\ bots = <<>>
    /\ liveWorkers = 0
    /\ by = "init"
    /\ ev = "constructed"
    /\ failedRuns = 0
    /\ BotIdle

\* getTodayScheduledTime(): getScheduledTimeForDate(new Date()), which has no
\* catch around its call of getConfiguredTimezoneOffset.
GetTodayScheduledTime ==
    /\ alive /\ ~scheduledTime.done
    /\ scheduledTime' =
          LET offset == getConfiguredTimezoneOffset(cfg, month)
          IN  IF "throws" \in DOMAIN offset
              THEN [done |-> TRUE, throws |-> offset.throws]
              ELSE [done |-> TRUE,
                    returns |-> getTodayScheduledTime(cfg, month, now),
                    warned |-> "warned" \in DOMAIN offset]
    /\ UNCHANGED <<taskVars, cfg, month, writable, now, alive, pc, state, file,
                   timers, schedulerTimer, isShuttingDown, runs, bots,
                   liveWorkers, by, ev, failedRuns>>

NextZones == GetTodayScheduledTime

SpecZones == InitZones /\ [][NextZones]_vars

TypeOK ==
    /\ cfg \in Configs
    /\ now \in FirstTick..MaxTime
    /\ alive \in BOOLEAN
    /\ Len(runs) <= 1

\* ------------------------------------------------- the bot: runTasks
\* The operators below work on a record b of the fields one call of runTasks
\* can change; like the scheduler's, they return every record the code can
\* leave behind when it next waits, so that one action is one continuation.
TCur ==
    [accountResults |-> accountResults, pointsInitial |-> pointsInitial,
     passNumber |-> passNumber, idx |-> idx, pcT |-> pcT, work |-> work,
     calls |-> calls, threw |-> threw, faults |-> faults, handed |-> handed,
     summary |-> summary, publisherResult |-> publisherResult]

\* this.config.dailyRetries || 0; a configuration with no dailyRetries has no
\* such field.
additionalRetries(c) ==
    IF "dailyRetries" \notin DOMAIN c THEN 0
    ELSE IF c.dailyRetries = 0 THEN 0
    ELSE c.dailyRetries

totalPasses(c) == 1 + additionalRetries(c)

\* process.exit() at the end of runTasks: whatever is in flight ends with it.
Exit(b) == [b EXCEPT !.pcT = "exited", !.work = {}]

\* What the request of sendFinalWebhook can end in.
PublisherResults == {"2xx", "non2xx", "throws", "timeout"}

\* sendFinalWebhook past its configuration test: the try / catch around the
\* request; how its promise settles.
sendFinalWebhook(result) ==
    CASE result \in {"2xx", "non2xx"} -> "resolved"
      [] result \in {"throws", "timeout"} -> "resolved"

\* sendFinalNotification awaiting the publisher with no catch on the way.
sendFinalNotificationPropagates(result) ==
    IF result \in {"throws", "timeout"} THEN "rejected" ELSE "resolved"

\* sendFinalNotification: the try / catch around the publisher call.
sendFinalNotification(result) ==
    IF sendFinalWebhook(result) = "rejected" THEN "resolved" ELSE "resolved"

\* runTasks from the call of sendFinalNotification to the next wait.
Notify(c, b) ==
    IF ~c.finalWebhook.enabled THEN Exit(b)
    ELSE LET b1 == [b EXCEPT !.summary = createFinalSummary(b.accountResults,
                                                            totalPasses(c)),
                             !.handed = @ + 1]
         IN  IF c.finalWebhook.urlLength < 10
             THEN Exit(b1)
             ELSE [b1 EXCEPT !.pcT = "publishing"]

\* runTasks with the final notification sent inside the loop, after each pass.
EndPassNotifiesEachPass(c, b) ==
    IF b.passNumber <= additionalRetries(c)
    THEN [b EXCEPT !.pcT = "wait",
                   !.summary = createFinalSummary(b.accountResults, totalPasses(c)),
                   !.handed = IF c.finalWebhook.enabled THEN @ + 1 ELSE @]
    ELSE Notify(c, b)

\* runTasks after a pass has ended, completed or failed: the wait before the
\* next pass, or the final notification.
EndPass(c, b) ==
    IF b.passNumber <= additionalRetries(c)
    THEN [b EXCEPT !.pcT = "wait"]
    ELSE Notify(c, b)

\* An error escapes runAllAccounts with nothing to catch it in runTasks.
PassFailsAbortsRun(c, b) ==
    [b EXCEPT !.faults = @ \cup {b.passNumber}, !.pcT = "rejected", !.work = {}]

\* An error escapes runAllAccounts: the catch around the pass logs it.
PassFails(c, b) == EndPass(c, [b EXCEPT !.faults = @ \cup {b.passNumber}])

NewWork(kind, b, i, inst) ==
    [kind |-> kind, pass |-> b.passNumber, idx |-> i, phase |-> "started",
     awaited |-> TRUE, inst |-> inst]

\* runAllAccounts at the head of its loop: the pass ends after the last
\* account; otherwise the statements before the try either throw, which ends
\* the pass, or the account's work is invoked: Desktop, and with
\* config.parallel also Mobile on a bot of its own.
StartAccount(c, accs, b) ==
    IF b.idx >= Len(accs) THEN {EndPass(c, b)}
    ELSE LET i == b.idx + 1
             b1 == [b EXCEPT !.idx = i, !.pcT = "accounts"]
         IN  {[b1 EXCEPT !.calls = Append(@, <<b.passNumber, i>>),
                         !.work = @ \cup
                             (IF c.parallel
                              THEN {NewWork("desktop", b, i, "this"),
                                    NewWork("mobile", b, i, "mobile")}
                              ELSE {NewWork("desktop", b, i, "this")})],
              PassFails(c, b1)}

\* The catch of runAllAccounts that leaves accountSuccess as it was.
RecordResultAlwaysSuccess(c, accs, b, accountSuccess, errorMessage) ==
    StartAccount(c, accs,
        IF b.passNumber = 1
        THEN [b EXCEPT !.accountResults =
                 Append(@, createAccountResult(accs[b.idx], b.pointsInitial,
                                               b.pointsInitial, 0, 0,
                                               TRUE, errorMessage))]
        ELSE b)

\* runAllAccounts after the try / catch of one account: on pass 1 the
\* account's result is created and pushed; then the loop goes on.
RecordResult(c, accs, b, accountSuccess, errorMessage) ==
    StartAccount(c, accs,
        IF b.passNumber = 1
        THEN [b EXCEPT !.accountResults =
                 Append(@, createAccountResult(accs[b.idx], b.pointsInitial,
                                               b.pointsInitial, 0, 0,
                                               accountSuccess, errorMessage))]
        ELSE b)

\* The calls, other than w, the loop still awaits for w's account.
Siblings(b, w) ==
    {v \in b.work \ {w} : v.awaited /\ v.pass = w.pass /\ v.idx = w.idx}

\* The call w returns.  Awaited alone it ends the try block, after Desktop
\* without config.parallel by invoking Mobile; awaited with another call
\* (Promise.all) the try block ends with the last of them.
Resolves(c, accs, b, w) ==
    LET b1 == [b EXCEPT !.work = @ \ {w}]
    IN  IF ~w.awaited \/ Siblings(b, w) # {} THEN {b1}
        ELSE IF w.kind = "desktop" /\ ~c.parallel
             THEN {[b1 EXCEPT !.work = @ \cup {NewWork("mobile", b, w.idx, "this")}]}
        ELSE RecordResult(c, accs, b1, TRUE, undefined)

\* The call w throws e, with a catch that gives the pass up.
RejectsEndsPass(c, accs, b, w, e) ==
    LET b1 == [b EXCEPT !.work = @ \ {w},
                        !.threw = IF w.pass = 1 THEN @ \cup {w.idx} ELSE @]
    IN  IF ~w.awaited THEN {b1} ELSE {EndPass(c, b1)}

\* The call w throws e.  Awaited, it ends the try block at once, in the
\* catch; a call awaited with it goes on unawaited.
Rejects(c, accs, b, w, e) ==
    LET b1 == [b EXCEPT !.work =
                  {IF v \in Siblings(b, w) THEN [v EXCEPT !.awaited = FALSE] ELSE v :
                      v \in @ \ {w}},
                        !.threw = IF w.pass = 1 THEN @ \cup {w.idx} ELSE @]
    IN  IF ~w.awaited THEN {b1}
        ELSE RecordResult(c, accs, b1, FALSE, String(e))

Advance(b, w, phase) ==
    [b EXCEPT !.work = (@ \ {w}) \cup {[w EXCEPT !.phase = phase]}]

\* Desktop's update of the account's result: on pass 1, if find() has one.
DesktopUpdate(rs, email, pass, pInitial, pointsAfter, tasksCompleted) ==
    LET i == FindResult(rs, email)
    IN  IF pass # 1 \/ i = 0 THEN rs
        ELSE [rs EXCEPT ![i].pointsBefore = pInitial,
                        ![i].pointsAfter = pointsAfter,
                        ![i].pointsGained = Max(0, pointsAfter - pInitial),
                        ![i].tasksCompleted = tasksCompleted]

\* Mobile's update with the gain taken without the max(0, ...).
MobileUpdateUnclamped(rs, email, pass, afterPointAmount, tasksCompleted) ==
    LET i == FindResult(rs, email)
    IN  IF pass # 1 \/ i = 0 THEN rs
        ELSE [rs EXCEPT ![i].tasksCompleted = @ + tasksCompleted,
                        ![i].pointsAfter = afterPointAmount,
                        ![i].pointsGained = afterPointAmount - rs[i].pointsBefore]

\* Mobile's update of the account's result: on pass 1, if find() has one.
MobileUpdate(rs, email, pass, afterPointAmount, tasksCompleted) ==
    LET i == FindResult(rs, email)
    IN  IF pass # 1 \/ i = 0 THEN rs
        ELSE [rs EXCEPT ![i].tasksCompleted = @ + tasksCompleted,
                        ![i].pointsAfter = afterPointAmount,
                        ![i].pointsGained =
                            Max(0, afterPointAmount - rs[i].pointsBefore)]

TSet(b) ==
    /\ accountResults' = b.accountResults
    /\ pointsInitial' = b.pointsInitial
    /\ passNumber' = b.passNumber
    /\ idx' = b.idx
    /\ pcT' = b.pcT
    /\ work' = b.work
    /\ calls' = b.calls
    /\ threw' = b.threw
    /\ faults' = b.faults
    /\ handed' = b.handed
    /\ summary' = b.summary
    /\ publisherResult' = b.publisherResult
    /\ UNCHANGED <<config, accounts, workers, activeWorkers, waitCall, waited>>

\* The scheduler that awaits the run: process.exit() ends its process with
\* executeWithRetry still at its await; a rejection of runTasks reaches
\* executeWithRetry's catch and finally.
TCommit(b) ==
    /\ TSet(b)
    /\ CASE b.pcT = "exited" ->
              /\ Commit(Tag([Cur EXCEPT !.alive = FALSE], "processExit"),
                        isShuttingDown, bots, liveWorkers)
              /\ by' = "runExits"
              /\ UNCHANGED <<cfg, month, writable, scheduledTime, now, failedRuns>>
         [] b.pcT = "rejected" ->
              /\ \E s \in Finally(cfg, month, isShuttingDown,
                                  Failure(cfg, Tag([Cur EXCEPT !.runs = <<>>],
                                                   "runFailed"), now), now) :
                    Commit(s, isShuttingDown, bots, liveWorkers)
              /\ by' = "runThrows"
              /\ failedRuns' = failedRuns + 1
              /\ UNCHANGED <<cfg, month, writable, scheduledTime, now>>
         [] OTHER -> UNCHANGED schedulerVars

\* run() with clusters <= 1: runTasks up to its first wait.
RunTasks ==
    /\ pcT = "called"
    /\ \E b \in StartAccount(config, accounts,
                    [TCur EXCEPT !.accountResults = <<>>, !.passNumber = 1,
                                 !.idx = 0]) :
          TCommit(b)

\* await this.utils.wait(retryDelay) is over: the next pass begins.
WaitElapsed ==
    /\ pcT = "wait"
    /\ \E b \in StartAccount(config, accounts,
                    [TCur EXCEPT !.passNumber = @ + 1, !.idx = 0]) :
          TCommit(b)

\* Desktop: this.pointsInitial = data.userStatus.availablePoints
DesktopReadsPoints ==
    \E w \in work, p \in Points :
        /\ w.kind = "desktop" /\ w.phase = "started"
        /\ TCommit([Advance(TCur, w, "read") EXCEPT !.pointsInitial = p])

\* Desktop from its tasks to the update of the account's result.
DesktopUpdates ==
    \E w \in work, pointsAfter \in PointsAfter, tasksCompleted \in TaskCounts :
        /\ w.kind = "desktop" /\ w.phase = "read"
        /\ TCommit([Advance(TCur, w, "updated") EXCEPT
                       !.accountResults =
                           DesktopUpdate(@, accounts[w.idx], w.pass, pointsInitial,
                                         pointsAfter, tasksCompleted)])

\* Desktop returns: early, with no points to earn, or at its end.
DesktopReturns ==
    \E w \in work :
        /\ w.kind = "desktop" /\ w.phase \in {"read", "updated"}
        /\ \E b \in Resolves(config, accounts, TCur, w) :
              TCommit(b)

DesktopThrows ==
    \E w \in work, e \in Errors :
        /\ w.kind = "desktop"
        /\ \E b \in Rejects(config, accounts, TCur, w, e) :
              TCommit(b)

\* Mobile from its tasks to the update of the account's result.  Under
\* config.parallel Mobile runs on a bot of its own, whose accountResults is
\* empty: its find() has nothing, and the step leaves no trace on this bot.
MobileUpdates ==
    \E w \in work, afterPointAmount \in PointsAfter, tasksCompleted \in TaskCounts :
        /\ w.kind = "mobile" /\ w.phase = "started" /\ w.inst = "this"
        /\ TCommit([Advance(TCur, w, "updated") EXCEPT
                       !.accountResults =
                           MobileUpdate(@, accounts[w.idx], w.pass,
                                        afterPointAmount, tasksCompleted)])

\* Mobile returns: early, with no points to earn, or at its end.
MobileReturns ==
    \E w \in work :
        /\ w.kind = "mobile"
        /\ \E b \in Resolves(config, accounts, TCur, w) :
              TCommit(b)

MobileThrows ==
    \E w \in work, e \in Errors :
        /\ w.kind = "mobile"
        /\ \E b \in Rejects(config, accounts, TCur, w, e) :
              TCommit(b)

\* The request of sendFinalWebhook ends; sendFinalNotification settles and
\* runTasks goes on to process.exit(), or rejects.
PublisherSettles ==
    /\ pcT = "publishing"
    /\ \E result \in PublisherResults :
          LET b == [TCur EXCEPT !.publisherResult = result]
          IN  TCommit(IF sendFinalNotification(result) = "resolved"
                      THEN Exit(b)
                      ELSE [b EXCEPT !.pcT = "rejected", !.work = {}])

\* A scheduled run in progress in a single process: executeWithRetry has set
\* isRunning, saved, and awaits executeMainScript, whose bot is constructed
\* and about to call runTasks(accounts).
InitTasks ==
    /\ cfg = MkConfig(TRUE, [dailyRunTime |-> 2, timezone |-> "UTC"],
                      [min |-> 0, max |-> 1],
                      [enabled |-> TRUE, maxRetries |-> 3, retryDelayMinutes |-> 1],
                      1)
    /\ month = 0
    /\ now = FirstTick
    /\ alive = TRUE
    /\ pc = "started"
    /\ state = [DefaultState EXCEPT !.isRunning = TRUE]
    /\ file = state
    /\ timers = <<>>
    /\ schedulerTimer = FALSE
    /\ isShuttingDown = FALSE
    /\ runs = <<[today |-> getTodayDateString(now)]>>
    /\ bots = <<>>
    /\ liveWorkers = 0
    /\ by = "start"
    /\ ev = "runStarted"
    /\ failedRuns = 0
    /\ writable = TRUE
    /\ scheduledTime = NotComputed
    /\ config \in TaskConfigs
    /\ accounts \in AccountLists(MaxAccounts)
    /\ accountResults = <<>>
    /\ pointsInitial = 0
    /\ passNumber = 0
    /\ idx = 0
    /\ pcT = "called"
    /\ work = {}
    /\ workers = <<>>
    /\ activeWorkers = 0
    /\ calls = <<>>
    /\ threw = {}
    /\ faults = {}
    /\ handed = 0
    /\ summary = NoSummary
    /\ publisherResult = "none"
    /\ waitCall = NoCall
    /\ waited = NoWait

NextTasks ==
    \/ RunTasks
    \/ WaitElapsed
    \/ DesktopReadsPoints
    \/ DesktopUpdates
    \/ DesktopReturns
    \/ DesktopThrows
    \/ MobileUpdates
    \/ MobileReturns
    \/ MobileThrows
    \/ PublisherSettles

SpecTasks == InitTasks /\ [][NextTasks]_vars

\* The same run with any dailyRetries in the configuration: none, negative,
\* zero or positive; one process, the publisher configured.
RetryConfigs ==
    {MkBotConfig(1, retries, FALSE, [enabled |-> TRUE, urlLength |-> 40]) :
        retries \in -2..MaxDailyRetries}
    \cup {[clusters |-> 1, parallel |-> FALSE,
           finalWebhook |-> [enabled |-> TRUE, urlLength |-> 40]]}

InitRetries ==
    /\ cfg = MkConfig(TRUE, [dailyRunTime |-> 2, timezone |-> "UTC"],
                      [min |-> 0, max |-> 1],
                      [enabled |-> TRUE, maxRetries |-> 3, retryDelayMinutes |-> 1],
                      1)
    /\ month = 0
    /\ now = FirstTick
    /\ alive = TRUE
    /\ pc = "started"
    /\ state = [DefaultState EXCEPT !.isRunning = TRUE]
    /\ file = state
    /\ timers = <<>>
    /\ schedulerTimer = FALSE
    /\ isShuttingDown = FALSE
    /\ runs = <<[today |-> getTodayDateString(now)]>>
    /\ bots = <<>>
    /\ liveWorkers = 0
    /\ by = "start"
    /\ ev = "runStarted"
    /\ failedRuns = 0
    /\ writable = TRUE
    /\ scheduledTime = NotComputed
    /\ config \in RetryConfigs
    /\ accounts \in AccountLists(MaxAccounts)
    /\ accountResults = <<>>
    /\ pointsInitial = 0
    /\ passNumber = 0
    /\ idx = 0
    /\ pcT = "called"
    /\ work = {}
    /\ workers = <<>>
    /\ activeWorkers = 0
    /\ calls = <<>>
    /\ threw = {}
    /\ faults = {}
    /\ handed = 0
    /\ summary = NoSummary
    /\ publisherResult = "none"
    /\ waitCall = NoCall
    /\ waited = NoWait

SpecRetries == InitRetries /\ [][NextTasks]_vars

\* The same run with passes to repeat, the account's Desktop and Mobile one
\* after the other or, with config.parallel, both at once.
PassConfigs ==
    {MkBotConfig(1, retries, par, [enabled |-> TRUE, urlLength |-> 40]) :
        retries \in 1..MaxDailyRetries, par \in BOOLEAN}

InitPasses ==
    /\ cfg = MkConfig(TRUE, [dailyRunTime |-> 2, timezone |-> "UTC"],
                      [min |-> 0, max |-> 1],
                      [enabled |-> TRUE, maxRetries |-> 3, retryDelayMinutes |-> 1],
                      1)
    /\ month = 0
    /\ now = FirstTick
    /\ alive = TRUE
    /\ pc = "started"
    /\ state = [DefaultState EXCEPT !.isRunning = TRUE]
    /\ file = state
    /\ timers = <<>>
    /\ schedulerTimer = FALSE
    /\ isShuttingDown = FALSE
    /\ runs = <<[today |-> getTodayDateString(now)]>>
    /\ bots = <<>>
    /\ liveWorkers = 0
    /\ by = "start"
    /\ ev = "runStarted"
    /\ failedRuns = 0
    /\ writable = TRUE
    /\ scheduledTime = NotComputed
    /\ config \in PassConfigs
    /\ accounts \in AccountLists(MaxAccounts)
    /\ accountResults = <<>>
    /\ pointsInitial = 0
    /\ passNumber = 0
    /\ idx = 0
    /\ pcT = "called"
    /\ work = {}
    /\ workers = <<>>
    /\ activeWorkers = 0
    /\ calls = <<>>
    /\ threw = {}
    /\ faults = {}
    /\ handed = 0
    /\ summary = NoSummary
    /\ publisherResult = "none"
    /\ waitCall = NoCall
    /\ waited = NoWait

SpecPasses == InitPasses /\ [][NextTasks]_vars

\* ------------------------------------------------- the bot: one wait
\* One call of humanWait, from a bot that is constructed and idle otherwise.
InitWait ==
    /\ cfg = MkConfig(FALSE, [dailyRunTime |-> 2, timezone |-> "UTC"],
                      [min |-> 0, max |-> 1],
                      [enabled |-> TRUE, maxRetries |-> 3, retryDelayMinutes |-> 1],
                      1)
    /\ month = 0
    /\ now = FirstTick
    /\ alive = TRUE
    /\ pc = "direct"
    /\ file = DefaultState
    /\ state = loadState(file)
    /\ timers = <<>>
    /\ schedulerTimer = FALSE
    /\ isShuttingDown = FALSE
    /\ runs = <<>>
    /\ bots = <<>>
    /\ liveWorkers = 0
    /\ by = "init"
    /\ ev = "main"
    /\ failedRuns = 0
    /\ writable = TRUE
    /\ scheduledTime = NotComputed
    /\ config = MkBotConfig(1, 0, FALSE, [enabled |-> FALSE, urlLength |-> 0])
    /\ accounts = <<>>
    /\ accountResults = <<>>
    /\ pointsInitial = 0
    /\ passNumber = 0
    /\ idx = 0
    /\ pcT = "idle"
    /\ work = {}
    /\ workers = <<>>
    /\ activeWorkers = 0
    /\ calls = <<>>
    /\ threw = {}
    /\ faults = {}
    /\ handed = 0
    /\ summary = NoSummary
    /\ publisherResult = "none"
    /\ waitCall \in WaitCalls
    /\ waited = NoWait

\* humanWait up to its call of this.bot.utils.wait.
HumanWait ==
    /\ waitCall.called /\ ~waited.done
    /\ waited' \in humanWait(waitCall)
    /\ UNCHANGED <<schedulerVars, config, accounts, accountResults, pointsInitial,
                   passNumber, idx, pcT, work, workers, activeWorkers, calls,
                   threw, faults, handed, summary, publisherResult, waitCall>>

NextWait == HumanWait

SpecWait == InitWait /\ [][NextWait]_vars

\* ------------------------------------------------- the bot: cluster mode
\* The primary process of a direct run (scheduler not enabled) with
\* clusters > 1: main() constructs the bot, whose activeWorkers is
\* config.clusters, loads the accounts and calls run(), which calls runMaster.
\* A worker runs runTasks on its chunk, which ends in process.exit(), or it
\* crashes; either way the primary gets one 'exit' event for it.
InitCluster ==
    /\ cfg = MkConfig(FALSE, [dailyRunTime |-> 2, timezone |-> "UTC"],
                      [min |-> 0, max |-> 1],
                      [enabled |-> TRUE, maxRetries |-> 3, retryDelayMinutes |-> 1],
                      1)
    /\ month = 0
    /\ now = FirstTick
    /\ alive = TRUE
    /\ pc = "direct"
    /\ file = DefaultState
    /\ state = loadState(file)
    /\ timers = <<>>
    /\ schedulerTimer = FALSE
    /\ isShuttingDown = FALSE
    /\ runs = <<>>
    /\ bots = <<>>
    /\ liveWorkers = 0
    /\ by = "init"
    /\ ev = "main"
    /\ failedRuns = 0
    /\ writable = TRUE
    /\ scheduledTime = NotComputed
    /\ config \in {MkBotConfig(cl, 0, FALSE, [enabled |-> FALSE, urlLength |-> 0]) :
                      cl \in 2..MaxClusters}
    /\ accounts \in AccountLists(MaxClusterAccounts)
    /\ accountResults = <<>>
    /\ pointsInitial = 0
    /\ passNumber = 0
    /\ idx = 0
    /\ pcT = "called"
    /\ work = {}
    /\ workers = <<>>
    /\ activeWorkers = config.clusters
    /\ calls = <<>>
    /\ threw = {}
    /\ faults = {}
    /\ handed = 0
    /\ summary = NoSummary
    /\ publisherResult = "none"
    /\ waitCall = NoCall
    /\ waited = NoWait

ClusterFrame ==
    UNCHANGED <<cfg, month, writable, scheduledTime, now, pc, state, file, timers, schedulerTimer,
                isShuttingDown, runs, bots, liveWorkers, by, ev, failedRuns,
                config, accounts, accountResults, pointsInitial, passNumber, idx,
                work, calls, threw, faults, handed, summary, publisherResult,
                waitCall, waited>>

\* runMaster: one worker forked per chunk and the chunk sent to it.
RunMaster ==
    /\ alive /\ pcT = "called" /\ config.clusters > 1
    /\ LET accountChunks == chunkArray(accounts, config.clusters)
       IN  workers' = [i \in 1..Len(accountChunks) |->
                          [chunk |-> accountChunks[i], status |-> "running"]]
    /\ pcT' = "forked"
    /\ UNCHANGED <<alive, activeWorkers>>
    /\ ClusterFrame

\* A worker ends, by the process.exit() of its runTasks or by a crash, and the
\* primary's cluster.on('exit') runs: activeWorkers -= 1, and process.exit(0)
\* when it is 0.
WorkerEnds ==
    /\ alive /\ pcT = "forked"
    /\ \E i \in 1..Len(workers), status \in {"exited", "crashed"} :
          /\ workers[i].status = "running"
          /\ workers' = [workers EXCEPT ![i].status = status]
    /\ activeWorkers' = activeWorkers - 1
    /\ alive' = (activeWorkers' # 0)
    /\ pcT' = IF activeWorkers' = 0 THEN "exited" ELSE pcT
    /\ ClusterFrame

\* No worker is left and nothing else keeps the primary's event loop alive:
\* the primary ends on its own.
PrimaryEnds ==
    /\ alive /\ pcT = "forked"
    /\ \A i \in 1..Len(workers) : workers[i].status # "running"
    /\ alive' = FALSE
    /\ pcT' = "ended"
    /\ UNCHANGED <<workers, activeWorkers>>
    /\ ClusterFrame

NextCluster ==
    \/ RunMaster
    \/ WorkerEnds
    \/ PrimaryEnds

SpecCluster == InitCluster /\ [][NextCluster]_vars

\* ================================================================ claims
PendingKinds(k) == {i \in 1..Len(timers) : timers[i].kind = k}

\* C1: at most one execution of the main script is in progress at any time,
\* and no step taken while state.isRunning is true starts a run: an
\* executeWithRetry invoked then (by start(), a daily or a retry timer) returns
\* without starting one.
C1_NoOverlap ==
    /\ [](Len(runs) <= 1)
    /\ [][state.isRunning => Len(runs') <= Len(runs)]_vars

\* executeWithRetry was invoked with isRunning true and returned at its guard.
C1_Witness == ev = "skipRunning" /\ state.isRunning /\ by \in {"start", "daily", "retry"}

\* C2: from a fresh state with a valid enabled configuration start() begins a
\* run at once and arms no timer, and when that run completes without a
\* scheduled-run error the state file holds lastRunDate = today,
\* consecutiveFailures = 0 and isRunning = false.
C2_FreshStartRunsAndPersists ==
    [][/\ (/\ pc = "constructed" /\ state = DefaultState
           /\ cfg.enabled /\ validateConfig(cfg))
          => (ev' = "runStarted" /\ Len(runs') = 1 /\ timers' = <<>>)
       /\ (/\ runs # <<>> /\ by' \in {"runReturns", "runExits"}
           /\ state.lastRunDate = NoDate /\ state.consecutiveFailures = 0)
          => (/\ file'.lastRunDate = runs[1].today
              /\ file'.consecutiveFailures = 0
              /\ ~file'.isRunning)]_vars

\* C3: with retry-on-failure enabled, the persisted consecutiveFailures
\* counts the scheduled runs that failed in a row and never passes maxRetries;
\* once it equals maxRetries (three failed runs for maxRetries = 3) no retry
\* timer is pending, no run is in flight and no step starts a run.
C3_RetryCapSuppressesRuns ==
    /\ [](cfg.retryOnFailure.enabled =>
            /\ file.consecutiveFailures = failedRuns
            /\ failedRuns <= cfg.retryOnFailure.maxRetries
            /\ failedRuns = cfg.retryOnFailure.maxRetries
                  => (PendingKinds("retry") = {} /\ runs = <<>>))
    /\ [][(/\ cfg.retryOnFailure.enabled
           /\ failedRuns = cfg.retryOnFailure.maxRetries)
          => Len(runs') <= Len(runs)]_vars

\* The third consecutive failure has just been recorded under maxRetries = 3.
C3_Witness ==
    /\ cfg.retryOnFailure.enabled /\ cfg.retryOnFailure.maxRetries = 3
    /\ by = "runThrows" /\ failedRuns = 3 /\ state.consecutiveFailures = 3
    /\ PendingKinds("daily") # {}

\* C4: the retry cap is per day: when the daily timer fires and the run is
\* refused because the cap is reached, the failures that reached the cap are
\* of the same calendar day.
C4_CapIsPerDay ==
    (by = "daily" /\ ev = "retryLimit")
        => getTodayDateString(state.lastFailureTime) = getTodayDateString(now)

\* C5: when executeMainScript throws, the failure transition is taken: the
\* state file then holds consecutiveFailures one higher, lastFailureTime = now
\* and isRunning = false (or true again only for a run begun by the same call).
C5_ThrowBecomesFailure ==
    [][by' = "runThrows" =>
          /\ file'.consecutiveFailures = state.consecutiveFailures + 1
          /\ file'.lastFailureTime = now
          /\ file'.lastRunDate = state.lastRunDate
          /\ file'.isRunning => ev' = "runStarted"]_vars

\* A thrown run has been converted and the process is still alive.
C5_Witness ==
    /\ by = "runThrows" /\ alive /\ ev = "runFailed"
    /\ state.consecutiveFailures = 2 /\ state.lastFailureTime = now

\* C6: whenever a run has ended, in success or in failure, and no run is in
\* progress, the state file holds isRunning = false.
C6_RunEndPersistsNotRunning ==
    (by \in {"runThrows", "runReturns", "runExits"} /\ runs = <<>>)
        => ~file.isRunning

\* C7: at most one daily timer and at most one retry timer are pending, never
\* one of each at the same time, and a run that ended left a daily timer only
\* with consecutiveFailures = 0 or with the retry cap reached.
C7_NoCompetingTimers ==
    /\ Cardinality(PendingKinds("daily")) <= 1
    /\ Cardinality(PendingKinds("retry")) <= 1
    /\ ~(PendingKinds("daily") # {} /\ PendingKinds("retry") # {})
    /\ (by \in {"runThrows", "runReturns"} /\ PendingKinds("daily") # {})
          => \/ state.consecutiveFailures = 0
             \/ state.consecutiveFailures >= cfg.retryOnFailure.maxRetries

\* A failed run below the cap left a retry timer and no daily timer.
C7_Witness ==
    /\ by = "runThrows" /\ PendingKinds("retry") # {}
    /\ state.consecutiveFailures > 0

\* C8: once shutdown has run, no step starts a run of the main script.
C8_NoRunAfterShutdown ==
    [][(alive /\ isShuttingDown) => Len(runs') <= Len(runs)]_vars

\* C9: once a run has succeeded on date D (lastRunDate = D, consecutiveFailures
\* = 0), a step taken on date D starts no run; start() or a timer callback
\* then changes nothing of the state but nextRunTime.
C9_NoDuplicateDailyRun ==
    [][(/\ alive
        /\ state.lastRunDate = getTodayDateString(now)
        /\ state.consecutiveFailures = 0)
       => /\ Len(runs') <= Len(runs)
          /\ (by' \in {"start", "daily", "retry"} /\ alive')
                => state' = [state EXCEPT !.nextRunTime = state'.nextRunTime]]_vars

\* executeWithRetry ran on the date of the successful run and re-armed.
C9_Witness ==
    /\ ev = "alreadyRanToday" /\ by = "daily"
    /\ state.lastRunDate = getTodayDateString(now)
    /\ PendingKinds("daily") # {}

\* C10: shouldRunNow is true exactly when no lastRunDate is recorded, or
\* lastRunDate differs from today and now is at or after today's scheduled
\* instant, or retry-on-failure is enabled, consecutiveFailures > 0 and now is
\* at or after lastFailureTime + retryDelayMinutes; so it is true on a fresh
\* state and false after a success of the same date with no failures.
C10_Condition ==
    \/ state.lastRunDate = NoDate
    \/ /\ state.lastRunDate # getTodayDateString(now)
       /\ now >= getTodayScheduledTime(cfg, month, now)
    \/ /\ cfg.retryOnFailure.enabled
       /\ state.consecutiveFailures > 0
       /\ now >= state.lastFailureTime + cfg.retryOnFailure.retryDelayMinutes

C10_ShouldRunNow ==
    /\ shouldRunNow(cfg, month, state, now) <=> C10_Condition
    /\ state = DefaultState => shouldRunNow(cfg, month, state, now)
    /\ (/\ state.lastRunDate = getTodayDateString(now)
        /\ state.consecutiveFailures = 0)
          => ~shouldRunNow(cfg, month, state, now)
    /\ (by = "start" /\ ev = "scheduled") => state.lastRunDate # NoDate

\* start() is about to decide on a loaded state of a day that already succeeded.
C10_Witness ==
    /\ pc = "constructed" /\ state.lastRunDate = getTodayDateString(now)
    /\ state.consecutiveFailures = 0
    /\ ~shouldRunNow(cfg, month, state, now)

\* ------------------------------------------------ claims about runTasks
\* The invocations of k + 1 passes over n accounts, pass by pass and in list
\* order within each pass.
ExpectedCalls(passes, n) ==
    [j \in 1..(passes * n) |-> <<((j - 1) \div n) + 1, ((j - 1) % n) + 1>>]

IsPrefix(p, q) == Len(p) <= Len(q) /\ SubSeq(q, 1, Len(p)) = p

RunTasksOver == pcT \in {"publishing", "exited"}

PassesInvoked == {calls[j][1] : j \in 1..Len(calls)}

\* C12: an error that escapes the account loop of pass k is caught at the
\* pass boundary: runTasks goes on to the wait before pass k + 1, or after the
\* last pass to the final notification; so every pass 1..totalPasses is run
\* and the final summary step is reached, whatever passes failed.
C12_PassFaultIsContained ==
    /\ [](pcT # "rejected")
    /\ [](RunTasksOver =>
            /\ passNumber = totalPasses(config)
            /\ accounts # <<>> =>
                  \A p \in 1..totalPasses(config) : p \in PassesInvoked \cup faults
            /\ config.finalWebhook.enabled => handed = 1)
    /\ [][faults' # faults =>
            IF passNumber' <= additionalRetries(config)
            THEN pcT' = "wait"
            ELSE pcT' \in {"publishing", "exited"}]_vars

\* Pass 1 failed at its first account, pass 2 ran both accounts, and the
\* summary was handed over.
C12_Witness ==
    /\ faults = {1} /\ calls = <<<<2, 1>>, <<2, 2>>>>
    /\ pcT = "publishing" /\ handed = 1

\* The accounts whose work has been invoked on pass 1 and has ended.
FirstPassEnded ==
    {calls[j][2] : j \in {k \in 1..Len(calls) : calls[k][1] = 1}}
        \ {w.idx : w \in {v \in work : v.pass = 1 /\ v.awaited}}

\* C13: an account whose work throws on pass 1 still yields exactly one
\* outcome record, with success = false and a non-empty error description:
\* there is one record per account whose pass-1 work has ended, in list order,
\* and the record of an account whose work threw is a failure with a message.
C13_ThrowingAccountHasOneOutcome ==
    /\ Len(accountResults) = Cardinality(FirstPassEnded)
    /\ \A i \in 1..Len(accountResults) :
          /\ accountResults[i].email = accounts[i]
          /\ i \in threw =>
                /\ ~accountResults[i].success
                /\ accountResults[i].errorMessage \notin {undefined, ""}
    /\ \A i \in threw :
          i \in 1..Len(accountResults) \/ \E w \in work : w.idx = i /\ w.pass = 1

\* The first account threw on pass 1, the second did not; the run is over.
C13_Witness ==
    /\ pcT = "exited" /\ threw = {1} /\ Len(accountResults) = 2
    /\ accountResults[1].errorMessage = "TimeoutError: login timed out"
    /\ accountResults[2].success

\* C14: on pass 1 the outcome record of an account is created before the
\* account's external work begins, so the updates the work makes to it are
\* present in the account's outcome: while the pass-1 work of the account at
\* position i is awaited, accountResults has the record of position i, and the
\* step in which Desktop or Mobile reaches its update leaves the final points
\* and the tasks completed in that record.
C14_OutcomeCreatedBeforeWork ==
    [][/\ \A w \in work' :
             (w.pass = 1 /\ w.awaited) => w.idx <= Len(accountResults')
       /\ \A w \in work :
             (/\ w.pass = 1 /\ w.awaited /\ w.phase # "updated"
              /\ [w EXCEPT !.phase = "updated"] \in work')
             => /\ w.idx <= Len(accountResults')
                /\ accountResults'[w.idx].pointsAfter \in PointsAfter
                /\ accountResults'[w.idx].tasksCompleted \in TaskCounts]_vars

C16_PublisherFailureIsContained ==
    [][pcT = "publishing" =>
          /\ file' = file
          /\ failedRuns' = failedRuns
          /\ timers' = timers
          /\ pcT' # "publishing" => (pcT' = "exited" /\ by' = "runExits")]_vars

\* The publisher's request failed and the run ended like any other.
C16_Witness ==
    /\ publisherResult \in {"throws", "timeout"} /\ pcT = "exited"
    /\ by = "runExits" /\ file.consecutiveFailures = 0
    /\ file.lastFailureTime = Unset

\* The points gained by the outcomes i.. of a list, counted from its head.
RECURSIVE GainedFrom(_, _)
GainedFrom(rs, i) ==
    IF i > Len(rs) THEN 0 ELSE rs[i].pointsGained + GainedFrom(rs, i + 1)

SummaryAddsUp(sm, rs) ==
    /\ sm.successfulAccounts + sm.failedAccounts = sm.totalAccounts
    /\ sm.totalAccounts = Len(rs)
    /\ sm.successfulAccounts = Cardinality({i \in 1..Len(rs) : rs[i].success})
    /\ sm.failedAccounts = Cardinality({i \in 1..Len(rs) : ~rs[i].success})
    /\ sm.totalPointsGained = GainedFrom(rs, 1)

\* C17: for every list of outcomes the summary built by createFinalSummary has
\* successfulAccounts + failedAccounts = totalAccounts and totalPointsGained
\* equal to the sum of pointsGained over its outcomes: so for the list of
\* outcomes of every reachable state, and for the summary sendFinalNotification
\* built from the list it was given.
C17_SummaryTotals ==
    /\ SummaryAddsUp(createFinalSummary(accountResults, totalPasses(config)),
                     accountResults)
    /\ summary.built => SummaryAddsUp(summary, summary.accountResults)

\* A summary was built of a success and a failure with points gained.
C17_Witness ==
    /\ summary.built
    /\ summary.successfulAccounts = 1 /\ summary.failedAccounts = 1
    /\ summary.totalPointsGained > 0

\* C18: every outcome record has pointsGained = max(0, pointsAfter -
\* pointsBefore), so never a negative pointsGained: as created, and after every
\* update by Desktop and by Mobile.
C18_PointsGainedClamped ==
    \A i \in 1..Len(accountResults) :
        /\ accountResults[i].pointsGained >= 0
        /\ accountResults[i].pointsGained =
              (IF accountResults[i].pointsAfter > accountResults[i].pointsBefore
               THEN accountResults[i].pointsAfter - accountResults[i].pointsBefore
               ELSE 0)

\* Mobile has updated a record to fewer points than it started with.
C18_Witness ==
    \E i \in 1..Len(accountResults) :
        /\ accountResults[i].tasksCompleted = 4
        /\ accountResults[i].pointsAfter < accountResults[i].pointsBefore
        /\ accountResults[i].pointsGained = 0

\* --------------------------------------------- claims about cluster mode
\* C19: for every account list and every parallelism n > 1 the distributor
\* produces exactly n chunks and spawns exactly n workers, one chunk sent to
\* each.
C19_OneWorkerPerCluster ==
    pcT # "called" =>
        /\ Len(chunkArray(accounts, config.clusters)) = config.clusters
        /\ Len(workers) = config.clusters
        /\ \A i \in 1..Len(workers) :
              workers[i].chunk = chunkArray(accounts, config.clusters)[i]

RunningWorkers == {i \in 1..Len(workers) : workers[i].status = "running"}

\* C20: the active-worker count, initialised from config.clusters and
\* decremented once per worker exit, reaches zero exactly when the last spawned
\* worker has exited, and then the parent exits; a worker that crashed is not
\* restarted and only decrements the count.
C20_CountReachesZeroWithLastWorker ==
    (pcT # "called" /\ workers # <<>>) =>
        /\ activeWorkers = config.clusters - (Len(workers) - Cardinality(RunningWorkers))
        /\ activeWorkers = 0 <=> RunningWorkers = {}
        /\ activeWorkers = 0 => ~alive

\* ---------------------------------- claims about the scheduler, continued
\* C22: for every current time, valid daily run time, timezone name and
\* jitter draw, the next run time calculateNextRunTime computes is strictly
\* later than the current time, so that scheduleNext always arms a timer with
\* a positive delay and never exhausts the stack calling executeWithRetry.
C22_NextRunTimeInFuture ==
    (alive /\ pc = "started" /\ validateConfig(cfg)) =>
        /\ \A nextRunTime \in calculateNextRunTime(cfg, month, now) :
              nextRunTime - now > 0
        /\ ev # "stackExhausted"

\* Jitter bounds with min < max, negative ones included.
JitterBoundsTested ==
    {jit \in [min : -1..2, max : 0..4] : jit.min < jit.max}

\* The jitter in the nextRunTime that scheduleNext recorded.
RecordedJitter ==
    (state.nextRunTime - getScheduledTimeForDate(cfg, month, 0)) % DayLen

\* C23: for integer jitter bounds min < max getRandomDelay returns a whole
\* number of minutes m with min <= m <= max, and every such m, both bounds
\* included, is returned for some draw; so the jitter in every next run time
\* that scheduleNext recorded lies within the configured bounds.
C23_JitterWithinBounds ==
    /\ pc = "constructed" =>
          \A jit \in JitterBoundsTested :
              getRandomDelay([randomDelayMinutes |-> jit]) = jit.min..jit.max
    /\ (validateConfig(cfg) /\ state.nextRunTime # 0) =>
          /\ RecordedJitter >= cfg.randomDelayMinutes.min
          /\ RecordedJitter <= cfg.randomDelayMinutes.max

\* A daily timer is armed for the scheduled instant plus the largest jitter.
C23_Witness ==
    /\ alive /\ PendingKinds("daily") # {} /\ state.nextRunTime > now
    /\ cfg.randomDelayMinutes = [min |-> 1, max |-> 2]
    /\ RecordedJitter = cfg.randomDelayMinutes.max


\* The chunks sent to the workers, in the order of the forks.
SentChunks == [i \in 1..Len(workers) |-> workers[i].chunk]

RECURSIVE Flatten(_)
Flatten(chunks) ==
    IF chunks = <<>> THEN <<>> ELSE Head(chunks) \o Flatten(Tail(chunks))

\* The least k with k * b >= a.
CeilDiv(a, b) == CHOOSE k \in 0..a : k * b >= a /\ (k = 0 \/ (k - 1) * b < a)

\* C21: chunkArray cuts the account list into contiguous chunks of
\* ceil(len / n) accounts, in the original order: the chunks sent to the
\* workers, put end to end, are the account list; none is empty; every chunk
\* but the last has exactly ceil(len / n) accounts and the last has no more;
\* and 7 accounts over 3 clusters give chunks of 3, 3 and 1.
C21_ChunksPartition ==
    pcT # "called" =>
        LET size == CeilDiv(Len(accounts), config.clusters)
            sizes == [i \in 1..Len(SentChunks) |-> Len(SentChunks[i])]
        IN  /\ Flatten(SentChunks) = accounts
            /\ \A i \in 1..Len(sizes) : sizes[i] > 0 /\ sizes[i] <= size
            /\ \A i \in 1..(Len(sizes) - 1) : sizes[i] = size
            /\ (Len(accounts) = 7 /\ config.clusters = 3) => sizes = <<3, 3, 1>>

\* runMaster has cut 7 accounts for 3 clusters.
C21_Witness ==
    /\ pcT = "forked" /\ Len(accounts) = 7 /\ config.clusters = 3
    /\ Len(workers) = 3 /\ Len(workers[3].chunk) = 1
    /\ workers[1].chunk = SubSeq(accounts, 1, 3)

\* The configurations the claim names: scheduling disabled, no scheduler
\* block, a dailyRunTime that is not a time of day, jitter min >= max.
RefusedByStart(c) ==
    \/ ~c.scheduler
    \/ ~c.enabled
    \/ c.dailyRunTime < 0 \/ c.dailyRunTime >= DayLen
    \/ c.randomDelayMinutes.min >= c.randomDelayMinutes.max

\* C24: start() with scheduling disabled, with no scheduler block, with a
\* dailyRunTime that is not HH:MM or with jitter min >= max returns without
\* throwing, starts no run, arms no timer and leaves the scheduler state, in
\* memory and on file, as it was.
C24_RefusedStartDoesNothing ==
    [][(alive /\ pc = "constructed" /\ RefusedByStart(cfg)) =>
          /\ alive' /\ by' = "start" /\ ev' = "startRefused"
          /\ runs' = runs /\ timers' = timers /\ schedulerTimer' = schedulerTimer
          /\ state' = state /\ file' = file]_vars

\* start() has refused a configuration whose jitter bounds are reversed.
C24_Witness ==
    /\ by = "start" /\ ev = "startRefused" /\ alive
    /\ cfg.scheduler /\ cfg.enabled
    /\ cfg.randomDelayMinutes.min > cfg.randomDelayMinutes.max
    /\ runs = <<>> /\ timers = <<>> /\ state = DefaultState

\* ------------------------------------------- claims about the state file
\* The steps that end the process by design: process.exit() of runTasks, of
\* the last worker's exit, of main's SIGINT handler, and an empty event loop.
EndsByDesign == by' \in {"runExits", "workerExit", "SIGINT", "beforeExit"}

\* C25: loading the scheduler state never throws: with the state file
\* missing, unreadable or malformed the constructed scheduler holds the
\* default state {isRunning: false, consecutiveFailures: 0, lastRunDate: ''};
\* and a state write that fails changes nothing, on file or in memory, and
\* is not fatal: the handler goes on as it would have, so that a run begins
\* with isRunning = true in memory only.
C25_StoreNeverFatal ==
    /\ [](pc = "constructed" =>
            /\ alive
            /\ (file = NoFile \/ file \in MalformedFiles) =>
                  state = [lastRunDate |-> NoDate, nextRunTime |-> 0,
                           consecutiveFailures |-> 0, isRunning |-> FALSE,
                           lastFailureTime |-> Unset])
    /\ [][~writable =>
            /\ file' = file
            /\ (alive /\ ~alive') => (EndsByDesign \/ ev' = "stackExhausted")
            /\ (alive' /\ ev' = "runStarted") =>
                  (state'.isRunning /\ Len(runs') = Len(runs) + 1)]_vars

\* A scheduler that loaded a malformed file has begun a run, and the write
\* of isRunning = true failed.
C25_Witness ==
    /\ file \in MalformedFiles /\ ~writable
    /\ alive /\ state.isRunning /\ runs # <<>>

\* ------------------------------------------ claims about the pass count
\* 1 + max(0, dailyRetries), a missing dailyRetries counting as 0.
PassesDue(c) ==
    IF "dailyRetries" \notin DOMAIN c THEN 1
    ELSE IF c.dailyRetries > 0 THEN 1 + c.dailyRetries ELSE 1

\* C26: for every integer dailyRetries, negative and missing ones included,
\* the number of passes runTasks has executed when it is over, and the pass
\* count in the summary it built, both equal 1 + max(0, dailyRetries).
C26_PassCountClamped ==
    RunTasksOver =>
        /\ passNumber = PassesDue(config)
        /\ summary.built => summary.retryPassesUsed = PassesDue(config)

\* ------------------------------------------------- claims about stop()
\* C27: stop() is idempotent: a second stop() leaves the scheduler state, the
\* state file and the pending timers exactly as the first did, so SIGINT,
\* whose two handlers call stop() one after the other, leaves the file one
\* stop() would; and shutdown() tears down at most once: a signal or
\* beforeExit that finds isShuttingDown set changes neither the state file
\* nor, in a process that lives on, the state and the timers.
C27_StopIdempotent ==
    /\ []((alive /\ pc = "started") =>
            /\ stop(stop(Cur)) = stop(Cur)
            /\ shutdown(TRUE, stop(Cur)) = stop(Cur))
    /\ [][by' = "SIGINT" => file' = stop(Cur).file]_vars
    /\ [][(alive /\ isShuttingDown /\ by' \in {"SIGTERM", "beforeExit"}) =>
            /\ file' = file
            /\ alive' => (state' = state /\ timers' = timers)]_vars

\* SIGINT found a daily timer armed: shutdown() called stop(), then main's
\* handler called stop() again.
C27_Witness ==
    /\ by = "SIGINT" /\ ev = "shutdown" /\ ~alive
    /\ file.nextRunTime > now /\ ~file.isRunning

\* ------------------------------------------------ claims about humanWait
\* C28: with humanized mode disabled, the duration humanWait(minMs, maxMs,
\* context) waits is never outside minMs..maxMs, for every pair of bounds a
\* caller passes and every random draw.
C28_FallbackWaitWithinBounds ==
    (waited.done /\ ~waitCall.isEnabled) =>
        /\ waited.num >= waitCall.minMs * waited.den
        /\ waited.num <= waitCall.maxMs * waited.den

\* humanWait(50, 150) drew 0 and waited 90 ms: the midpoint less a tenth of
\* the range.
C28_Witness ==
    /\ waited.done /\ ~waitCall.isEnabled
    /\ waitCall.minMs = 50 /\ waitCall.maxMs = 150
    /\ waited.num = 90 * waited.den

\* ------------------------------------------------ claims about idleness
\* C29: a started scheduler with a valid configuration that has not been
\* shut down is never idle: a run is in progress or a timer, daily or retry,
\* is pending, whatever retryOnFailure says.
C29_NeverIdle ==
    (/\ alive /\ pc = "started" /\ ~isShuttingDown
     /\ cfg.scheduler /\ cfg.enabled /\ validateConfig(cfg)
     /\ ~state.isRunning /\ by = "runThrows" /\ ev # "stackExhausted") =>
        (runs # <<>> \/ timers # <<>>)

\* C30: start() on a state loaded with isRunning = true executes a run or
\* arms a timer for the next one.
C30_StaleRunningFlagDoesNotBlock ==
    [][(/\ alive /\ pc = "constructed" /\ state.isRunning
        /\ cfg.scheduler /\ cfg.enabled /\ validateConfig(cfg)
        /\ by' = "start") =>
            (runs' # <<>> \/ timers' # <<>>)]_vars

\* ------------------------------------------------ claims about the outcome of a run
\* C31: the scheduler records a run as successful (lastRunDate = today,
\* consecutiveFailures = 0, isRunning = false) only after all passes over
\* all accounts have finished, with clusters > 1 too, where the workers the
\* run forked do the passes and exit when they are done.
C31_SuccessOnlyAfterAllPasses ==
    (/\ alive /\ by = "runReturns"
     /\ state.lastRunDate = getTodayDateString(now)
     /\ state.consecutiveFailures = 0 /\ ~state.isRunning) =>
        liveWorkers = 0

\* ------------------------------------------------ claims about the cadence
\* C32: the daily cadence has no gaps: when a run that started today has
\* succeeded and the scheduler goes on, a run is due again no later than on
\* the next calendar date, whatever the daily run time and the jitter.
C32_NoGapAfterSuccess ==
    [][(/\ by' = "runReturns" /\ alive' /\ ~isShuttingDown'
        /\ cfg.timezone = "UTC"
        /\ state'.lastRunDate = getTodayDateString(now)) =>
            \E i \in 1..Len(timers') :
                getTodayDateString(timers'[i].due) <= state'.lastRunDate + 1]_vars

\* ------------------------------------------------ claims about the zone names
\* C33: computing the scheduled instant returns a value and raises no error
\* for every configured zone name; the names the switch lists give their
\* table offset, any other name the host's offset after a warning.
C33_EveryZoneNameReturns ==
    scheduledTime.done =>
        /\ "returns" \in DOMAIN scheduledTime
        /\ scheduledTime.warned <=>
              cfg.timezone \notin {"UTC", "Europe/Paris", "CET", "America/New_York", "EST"}

\* ------------------------------------------------ claims about the retry timer
\* The pending retry timers.
RetryTimers(ts) ==
    LET IsRetry(tm) == tm.kind = "retry" IN SelectSeq(ts, IsRetry)

\* C34: a failed run with retry-on-failure enabled that leaves
\* consecutiveFailures below maxRetries arms exactly one timer, a retry timer
\* due retryDelayMinutes after the failure, and the run that timer starts
\* begins no earlier than that; with retry disabled or the cap reached the
\* failure arms no retry timer.
C34_OneRetryTimerAfterDelay ==
    /\ [][(alive' /\ by' = "runThrows") =>
            IF /\ cfg.retryOnFailure.enabled
               /\ state'.consecutiveFailures < cfg.retryOnFailure.maxRetries
            THEN /\ state'.lastFailureTime = now
                 /\ timers' = Append(timers,
                                     [kind |-> "retry",
                                      due |-> now + cfg.retryOnFailure.retryDelayMinutes,
                                      tracked |-> FALSE])
            ELSE RetryTimers(timers') = RetryTimers(timers)]_vars
    /\ [][(by' = "retry" /\ ev' = "runStarted") =>
            now >= state.lastFailureTime + cfg.retryOnFailure.retryDelayMinutes]_vars

\* The retry timer fired retryDelayMinutes after the failure and its run began.
C34_Witness ==
    /\ by = "retry" /\ ev = "runStarted"
    /\ state.consecutiveFailures > 0
    /\ now = state.lastFailureTime + cfg.retryOnFailure.retryDelayMinutes

\* ------------------------------------------------ claims about the fields of the state
\* C35: a failed run increments consecutiveFailures by exactly one and
\* leaves lastRunDate unchanged; a successful run sets lastRunDate to the
\* `today` of the run, consecutiveFailures to 0 and clears lastFailureTime;
\* the two early returns of executeWithRetry (already succeeded today, cap
\* reached) change none of lastRunDate, consecutiveFailures, lastFailureTime
\* and isRunning.
C35_RunTouchesItsOwnFields ==
    /\ [][(alive' /\ by' = "runThrows") =>
            /\ state'.consecutiveFailures = state.consecutiveFailures + 1
            /\ state'.lastRunDate = state.lastRunDate]_vars
    /\ [][(alive' /\ by' = "runReturns") =>
            /\ \E i \in 1..Len(runs) : state'.lastRunDate = runs[i].today
            /\ state'.consecutiveFailures = 0
            /\ state'.lastFailureTime = Unset]_vars
    /\ [][(alive' /\ ev' \in {"alreadyRanToday", "retryLimit"}) =>
            /\ state'.lastRunDate = state.lastRunDate
            /\ state'.consecutiveFailures = state.consecutiveFailures
            /\ state'.lastFailureTime = state.lastFailureTime
            /\ state'.isRunning = state.isRunning]_vars

\* A run has failed after an earlier one succeeded: the date of the success
\* is still there, next to one failure.
C35_Witness ==
    /\ alive /\ by = "runThrows"
    /\ state.consecutiveFailures = 1
    /\ state.lastRunDate # NoDate

\* ------------------------------------------------ claims about a run with failed accounts
\* C36: a run in which accounts fail still completes as a successful
\* scheduled run: when runTasks is over the scheduler has recorded the
\* success (lastRunDate = today, isRunning = false), consecutiveFailures is
\* 0 and no retry timer is armed.
C36_AccountFailuresStillSuccess ==
    (pcT = "exited" /\ threw # {}) =>
        /\ file.lastRunDate = getTodayDateString(now)
        /\ ~file.isRunning
        /\ file.consecutiveFailures = 0
        /\ RetryTimers(timers) = <<>>

\* ------------------------------------------------ claims about the state file
\* C37: while a timer is pending or a run is awaited, and writes succeed,
\* the state file holds the in-memory state of the scheduler, field by field.
C37_FileMirrorsState ==
    (alive /\ pc = "started" /\ writable /\ (timers # <<>> \/ runs # <<>>)) =>
        file = state

\* A daily timer is pending after a failure at the retry cap: the file has
\* the failure and the nextRunTime of the timer.
C37_Witness ==
    /\ alive /\ pc = "started" /\ writable
    /\ timers # <<>> /\ runs = <<>>
    /\ state.consecutiveFailures > 0
    /\ state.nextRunTime > now
    /\ file = state

\* ------------------------------------------------ claims about the passes
\* Pass 1 is over: runTasks waits before pass 2, or is beyond that.
PassOneOver ==
    \/ passNumber >= 2
    \/ passNumber = 1 /\ pcT \in {"wait", "publishing", "exited", "rejected"}

\* C38: once pass 1 is over the list of outcomes and every field of every
\* outcome stay as they are to the end of the run, whatever the later passes
\* do.
C38_OutcomesFixedAfterPassOne ==
    [][PassOneOver => accountResults' = accountResults]_vars

\* C39: the summary of a run has exactly one outcome per account of the list
\* given to runTasks, in list order, and totalAccounts is the length of that
\* list, also when pass 1 ended with an error that escaped the account loop.
C39_OneOutcomePerAccount ==
    summary.built =>
        /\ summary.totalAccounts = Len(accounts)
        /\ Len(summary.accountResults) = Len(accounts)
        /\ \A i \in 1..Len(summary.accountResults) :
              i <= Len(accounts) /\ summary.accountResults[i].email = accounts[i]

\* C40: within one worker the work is strictly sequential: the work in
\* progress is that of one account, and of the pass in progress; while
\* runTasks waits between two passes no work is in progress.
C40_StrictlySequential ==
    /\ \A w \in work : \A v \in work : accounts[w.idx] = accounts[v.idx]
    /\ \A w \in work : w.pass = passNumber
    /\ pcT = "wait" => work = {}

====
